---- MODULE Spec2Model ----
(***************************************************************************)
(* Student portal client: CacheManager (local cache with expiry and size   *)
(* ceiling, persisted in localStorage) and APIManager (request with        *)
(* timeout and retries, cache-first reads, invalidating mutations).        *)
(*                                                                         *)
(* Time is in milliseconds.  A cache is the sequence of its entries in     *)
(* property (insertion) order, as Object.entries enumerates them.          *)
(***************************************************************************)
EXTENDS Integers, Sequences, FiniteSets, TLC

VARIABLES now, ticks, ops, enabled, cache, stored, hist,
          configured, sheet, call, callsLeft, faultsLeft, lastList,
          frames, quota, thrown, user, session

vars == <<now, ticks, ops, enabled, cache, stored, hist,
          configured, sheet, call, callsLeft, faultsLeft, lastList,
          frames, quota, thrown, user, session>>

apiVars == <<configured, sheet, call, callsLeft, faultsLeft, lastList>>

\* the call stack of a saveToStorage in steps, the room of the storage, the
\* exception in flight
stackVars == <<frames, quota, thrown>>

\* AuthManager: this.user and the session slot
authVars == <<user, session>>

(***************************************************************************)
(* Bounds of the model                                                     *)
(***************************************************************************)
StartNow == 299999
MaxTicks == 2
MaxOps == 2
QuotaFull == 0
QuotaTiny == 1000
QuotaAmple == 10000000
ShortDuration == 1
LenSmall == 2
LenBig == 3000000
LenHuge == 6000000

(***************************************************************************)
(* Program constants                                                       *)
(***************************************************************************)
DURATION_STUDENTS == 5 * 60 * 1000
maxSize == 5 * 1024 * 1024
TimestampLen == 13

Keys == {"students_list", "student_s1", "student_unique_s1"}
Quotas == {QuotaFull, QuotaTiny, QuotaAmple}
Durations == {ShortDuration, DURATION_STUDENTS}

\* Cached payloads: the data (a set of student ids) and the length of its JSON text.
Values == { [data |-> {}, len |-> LenSmall],
            [data |-> {"s1"}, len |-> LenBig],
            [data |-> {"s1", "s2"}, len |-> LenHuge] }

NoValue == [data |-> {"null"}, len |-> 4]

(***************************************************************************)
(* The mapping this.cache                                                  *)
(***************************************************************************)
KeysOf(c) == {c[i].key : i \in 1..Len(c)}

Has(c, k) == k \in KeysOf(c)

Item(c, k) == c[CHOOSE i \in 1..Len(c) : c[i].key = k]

\* delete this.cache[key]
Delete(c, k) == SelectSeq(c, LAMBDA e : e.key # k)

\* this.cache[key] = item : an existing property keeps its place, a new one is last
Assign(c, k, item) ==
    IF Has(c, k)
    THEN [i \in 1..Len(c) |-> IF c[i].key = k THEN item ELSE c[i]]
    ELSE Append(c, item)

newItem_noDuration(k, v, d, t) ==
    [key |-> k, value |-> v, expiresAt |-> t, createdAt |-> t]

\* { value, expiresAt: Date.now() + duration, createdAt: Date.now() }
newItem(k, v, d, t) ==
    [key |-> k, value |-> v, expiresAt |-> t + d, createdAt |-> t]

isExpired_createdAt(item, t) == item.createdAt # 0 /\ item.createdAt < t

\* item.expiresAt && item.expiresAt < Date.now()
isExpired(item, t) == item.expiresAt # 0 /\ item.expiresAt < t

(***************************************************************************)
(* JSON.stringify(this.cache).length                                       *)
(***************************************************************************)
\* "key":{"value":V,"expiresAt":N,"createdAt":N}
ItemLen(e) == (Len(e.key) + 2) + 1 + 9 + e.value.len + 13 + TimestampLen
                 + 13 + TimestampLen + 1

RECURSIVE SumLen(_)
SumLen(c) == IF c = <<>> THEN 0 ELSE ItemLen(Head(c)) + SumLen(Tail(c))

JsonLen(c) == IF c = <<>> THEN 2 ELSE 2 + SumLen(c) + (Len(c) - 1)

\* The blob in the storage slot: absent, unparseable text, or a serialized mapping.
Absent == [kind |-> "absent", map |-> <<>>]
Corrupt == [kind |-> "corrupt", map |-> <<>>]

\* a storage the page may not use: every access to localStorage throws (no quota
\* error), whatever the slot
Unreadable == [kind |-> "unreadable", map |-> <<>>]
Stringify(c) == [kind |-> "map", map |-> c]

\* localStorage.setItem succeeds iff the text fits the space left for the slot
Fits(c, q) == JsonLen(c) <= q

(***************************************************************************)
(* clearOldEntries: stable sort by createdAt, delete the first ceil(n/2)   *)
(***************************************************************************)
InsertByCreatedAt_descending(s, e) ==
    LET n == Cardinality({i \in 1..Len(s) : s[i].createdAt >= e.createdAt})
    IN  SubSeq(s, 1, n) \o <<e>> \o SubSeq(s, n + 1, Len(s))

\* sort((a, b) => a[1].createdAt - b[1].createdAt), one insertion of the stable sort
InsertByCreatedAt(s, e) ==
    LET n == Cardinality({i \in 1..Len(s) : s[i].createdAt <= e.createdAt})
    IN  SubSeq(s, 1, n) \o <<e>> \o SubSeq(s, n + 1, Len(s))

RECURSIVE SortByCreatedAt(_)
SortByCreatedAt(c) ==
    IF c = <<>> THEN <<>>
    ELSE InsertByCreatedAt(SortByCreatedAt(SubSeq(c, 1, Len(c) - 1)), c[Len(c)])

\* Math.ceil(entries.length / 2)
toDelete(n) == (n + 1) \div 2

DeleteOldest(c) ==
    LET entries == SortByCreatedAt(c)
        gone == {entries[i].key : i \in 1..toDelete(Len(c))}
    IN  SelectSeq(c, LAMBDA e : e.key \notin gone)

(***************************************************************************)
(* saveToStorage, with clearOldEntries and clear, which call it back.      *)
(* q is the space the storage has for the slot, ovf whether the stack      *)
(* overflow of an endless clear/saveToStorage recursion escapes as an      *)
(* exception.  Result: the mapping, the slot, whether an exception reached *)
(* the caller, whether a write failed on quota, the number of writes done. *)
(***************************************************************************)
SaveResult(c, st, threw, quotaFail, writes) ==
    [cache |-> c, stored |-> st, threw |-> threw, quotaFail |-> quotaFail,
     writes |-> writes]

\* localStorage.setItem(...) and the catch branch of saveToStorage
setItemOrClear(c, st, q, ovf, quotaFail, writes) ==
    IF st.kind = "unreadable"
    THEN \* the error is caught and is no quota error: nothing more is done
         SaveResult(c, st, FALSE, quotaFail, writes)
    ELSE
    IF Fits(c, q)
    THEN SaveResult(c, Stringify(c), FALSE, quotaFail, writes + 1)
    ELSE \* QuotaExceededError: this.clear(), which saves the empty mapping
         IF Fits(<<>>, q)
         THEN SaveResult(<<>>, Stringify(<<>>), FALSE, TRUE, writes + 1)
         ELSE \* every write fails: clear and saveToStorage recurse until the stack ends
              SaveResult(<<>>, st, ovf, TRUE, writes)

saveToStorage_noRecheck(c, st, q, ovf) ==
    IF JsonLen(c) > maxSize
    THEN setItemOrClear(DeleteOldest(c), st, q, ovf, FALSE, 0)
    ELSE setItemOrClear(c, st, q, ovf, FALSE, 0)

RECURSIVE saveToStorage(_, _, _, _)
saveToStorage(c, st, q, ovf) ==
    IF JsonLen(c) > maxSize
    THEN \* clearOldEntries(): deletes, then saveToStorage() again
         LET r == saveToStorage(DeleteOldest(c), st, q, ovf)
         IN  IF r.threw
             THEN \* caught by this frame's try: not a quota error, nothing more is done
                  SaveResult(r.cache, r.stored, FALSE, r.quotaFail, r.writes)
             ELSE setItemOrClear(r.cache, r.stored, q, ovf, r.quotaFail, r.writes)
    ELSE setItemOrClear(c, st, q, ovf, FALSE, 0)

loadFromStorage_keepsText(st) ==
    IF st.kind = "map" THEN st.map
    ELSE <<[key |-> "students_list", value |-> NoValue, createdAt |-> 0,
            expiresAt |-> DURATION_STUDENTS]>>

\* loadFromStorage: the parsed blob, or {} when it is missing, cannot be read or
\* does not parse
loadFromStorage(st) == IF st.kind = "map" THEN st.map ELSE <<>>

\* new CacheManager(): the mapping it starts with, and whether it throws
constructor(st) == [cache |-> loadFromStorage(st), threw |-> FALSE]

(***************************************************************************)
(* The cache operations as functions of the state                          *)
(***************************************************************************)
get_returnsItem(en, c, st, k, t, q, ovf) ==
    IF ~en \/ ~Has(c, k)
    THEN [found |-> FALSE, value |-> NoValue, purged |-> FALSE,
          save |-> SaveResult(c, st, FALSE, FALSE, 0)]
    ELSE IF isExpired(Item(c, k), t)
         THEN [found |-> FALSE, value |-> NoValue, purged |-> TRUE,
               save |-> saveToStorage(Delete(c, k), st, q, ovf)]
         ELSE [found |-> TRUE, value |-> Item(c, k), purged |-> FALSE,
               save |-> SaveResult(c, st, FALSE, FALSE, 0)]

get_extendsExpiry(en, c, st, k, t, q, ovf) ==
    IF ~en \/ ~Has(c, k)
    THEN [found |-> FALSE, value |-> NoValue, purged |-> FALSE,
          save |-> SaveResult(c, st, FALSE, FALSE, 0)]
    ELSE IF isExpired(Item(c, k), t)
         THEN [found |-> FALSE, value |-> NoValue, purged |-> TRUE,
               save |-> saveToStorage(Delete(c, k), st, q, ovf)]
         ELSE [found |-> TRUE, value |-> Item(c, k).value, purged |-> FALSE,
               save |-> SaveResult(Assign(c, k, [Item(c, k) EXCEPT
                                                    !.expiresAt = t + DURATION_STUDENTS]),
                                   st, FALSE, FALSE, 0)]

get_purgeNoSave(en, c, st, k, t, q, ovf) ==
    IF ~en \/ ~Has(c, k)
    THEN [found |-> FALSE, value |-> NoValue, purged |-> FALSE,
          save |-> SaveResult(c, st, FALSE, FALSE, 0)]
    ELSE IF isExpired(Item(c, k), t)
         THEN [found |-> FALSE, value |-> NoValue, purged |-> TRUE,
               save |-> SaveResult(Delete(c, k), st, FALSE, FALSE, 0)]
         ELSE [found |-> TRUE, value |-> Item(c, k).value, purged |-> FALSE,
               save |-> SaveResult(c, st, FALSE, FALSE, 0)]

\* get(key): the value returned (found) and what it does to mapping and slot
get(en, c, st, k, t, q, ovf) ==
    IF ~en \/ ~Has(c, k)
    THEN [found |-> FALSE, value |-> NoValue, purged |-> FALSE,
          save |-> SaveResult(c, st, FALSE, FALSE, 0)]
    ELSE IF isExpired(Item(c, k), t)
         THEN [found |-> FALSE, value |-> NoValue, purged |-> TRUE,
               save |-> saveToStorage(Delete(c, k), st, q, ovf)]
         ELSE [found |-> TRUE, value |-> Item(c, k).value, purged |-> FALSE,
               save |-> SaveResult(c, st, FALSE, FALSE, 0)]

\* what get(key) returns at time t, when the storage has room
Read(en, c, k, t) == get(en, c, Stringify(c), k, t, QuotaAmple, FALSE)

set_ignoresEnabled(en, c, st, k, v, d, t, q, ovf) ==
    saveToStorage(Assign(c, k, newItem(k, v, d, t)), st, q, ovf)

\* set(key, value, duration)
set(en, c, st, k, v, d, t, q, ovf) ==
    IF ~en THEN SaveResult(c, st, FALSE, FALSE, 0)
    ELSE saveToStorage(Assign(c, k, newItem(k, v, d, t)), st, q, ovf)

remove_noSave(c, st, k, q, ovf) == SaveResult(Delete(c, k), st, FALSE, FALSE, 0)

\* remove(key)
remove(c, st, k, q, ovf) == saveToStorage(Delete(c, k), st, q, ovf)

clear_noSave(st, q, ovf) == SaveResult(<<>>, st, FALSE, FALSE, 0)

\* clear()
clear(st, q, ovf) == saveToStorage(<<>>, st, q, ovf)

\* The patterns handed to invalidatePattern: a string becomes new RegExp(pattern),
\* which has no g flag; a RegExp object is used as it is, with its flags.
Sources == {"^student_", "students", "teacher"}

Patterns == [source : Sources, global : BOOLEAN]

NoPattern == [source |-> "", global |-> FALSE]

\* the key has a match of the pattern
Matches(p, k) ==
    CASE p.source = "^student_" -> k \in {"student_s1", "student_unique_s1"}
      [] p.source = "students" -> k = "students_list"
      [] OTHER -> FALSE

\* where the match of the pattern in the key ends: it starts at index 0, and
\* "student_" and "students" are 8 characters long
MatchEnd(p, k) == 8

\* regex.test(key): a regex with the g flag searches from its lastIndex and leaves
\* lastIndex at the end of the match, or at 0 when it finds none
test(p, k, lastIndex) ==
    IF p.global
    THEN LET ok == Matches(p, k) /\ lastIndex = 0
         IN  [ok |-> ok, lastIndex |-> IF ok THEN MatchEnd(p, k) ELSE 0]
    ELSE [ok |-> Matches(p, k), lastIndex |-> lastIndex]

\* Object.keys(this.cache).filter(key => regex.test(key))
RECURSIVE filterTest(_, _, _)
filterTest(keys, p, lastIndex) ==
    IF keys = <<>> THEN <<>>
    ELSE LET r == test(p, Head(keys), lastIndex)
             rest == filterTest(Tail(keys), p, r.lastIndex)
         IN  IF r.ok THEN <<Head(keys)>> \o rest ELSE rest

\* keys.forEach(key => this.remove(key)): an exception ends the loop
RECURSIVE removeEach(_, _, _, _)
removeEach(keys, r, q, ovf) ==
    IF keys = <<>> \/ r.threw THEN r
    ELSE LET s == remove(r.cache, r.stored, Head(keys), q, ovf)
         IN  removeEach(Tail(keys),
                        [s EXCEPT !.quotaFail = r.quotaFail \/ s.quotaFail,
                                  !.writes = r.writes + s.writes],
                        q, ovf)

\* invalidatePattern(pattern)
invalidatePattern(c, st, p, q, ovf) ==
    LET all == [i \in 1..Len(c) |-> c[i].key]
        keys == filterTest(all, p, 0)
    IN  removeEach(keys, SaveResult(c, st, FALSE, FALSE, 0), q, ovf)

\* getStats().total
getStatsTotal(c) == Len(c)

\* getStats().size
getStatsSize(c) == JsonLen(c)

(***************************************************************************)
(* History of the last cache operation                                     *)
(***************************************************************************)
NoHist == [op |-> "none", key |-> "", pattern |-> NoPattern, value |-> NoValue, d |-> 0, at |-> 0,
           found |-> FALSE, result |-> NoValue, had |-> FALSE, hadExpiresAt |-> 0,
           pre |-> <<>>, over |-> FALSE, quotaFail |-> FALSE, threw |-> FALSE,
           writes |-> 0, en |-> FALSE, total |-> 0]

\* pre is the mapping the operation hands to saveToStorage
Hist(op, k, pre, r) ==
    [NoHist EXCEPT !.op = op, !.key = k, !.at = now, !.pre = pre,
                   !.over = JsonLen(pre) > maxSize, !.quotaFail = r.quotaFail,
                   !.threw = r.threw, !.writes = r.writes, !.en = enabled]

Ovfs(q) == IF Fits(<<>>, q) THEN {FALSE} ELSE BOOLEAN

\* The space the storage can have for the slot: the text the slot holds is counted
\* as free for its replacement, so a text no longer than it always fits.
QuotasFor(st) == {q \in Quotas : st.kind = "map" => Fits(st.map, q)}


(***************************************************************************)
(* APIManager and the endpoint                                             *)
(***************************************************************************)
MaxCalls == 2
MaxApiTicks == 1
MaxFaults == 1
MaxFaultsOneCall == 4
StudentLen == 200
TIMEOUT == 30000
DefaultRetries == 3

Callers == {1}

\* two calls of the page that can be pending at the same time
OverlapCallers == {1, 2}
StudentIds == {"s1"}
Mutations == {"addStudent", "updateStudent", "deleteStudent"}
Reads == {"getStudents", "getStudent"}

\* JSON.stringify of an array of student records
ListLen(ids) ==
    IF ids = {} THEN 2
    ELSE 2 + Cardinality(ids) * StudentLen + (Cardinality(ids) - 1)

ListValue(ids) == [data |-> ids, len |-> ListLen(ids)]
StudentValue(id) == [data |-> {id}, len |-> StudentLen]

NoResp == [success |-> FALSE, message |-> "", value |-> NoValue]
NoLast == [valid |-> FALSE, at |-> 0, attempts |-> 0, kept |-> FALSE, value |-> NoValue]

IdleCall ==
    [action |-> "none", id |-> "", pc |-> "idle", retries |-> 0, attempts |-> 0,
     attemptAt |-> 0, wake |-> 0, served |-> FALSE, resp |-> NoResp,
     fails |-> 0, waited |-> <<>>, sent |-> <<>>, outcome |-> "none",
     err |-> "none", lastKind |-> "none", abortedAttempt |-> 0,
     result |-> NoResp, hit |-> FALSE, hadKeys |-> FALSE,
     startedAt |-> 0, after |-> NoLast, sheet0 |-> <<>>]

Active(c) == c.pc \in {"fetch", "body", "delay"}

\* the student a client call adds, the updates a client call sends
StudentOf(id) == [id |-> id, name |-> "Name", rollNo |-> "CS101"]
NoStudent == [id |-> "", name |-> "", rollNo |-> ""]
UpdatesOf(id) == [f \in {"name"} |-> "Name"]
NoUpdates == <<>>

\* the body of the POST: { action, student, studentId, updates }
Payload(c) ==
    [action |-> c.action, studentId |-> c.id,
     student |-> IF c.action = "addStudent" THEN StudentOf(c.id) ELSE NoStudent,
     updates |-> IF c.action = "updateStudent" THEN UpdatesOf(c.id) ELSE NoUpdates]

studentKey(id) == "student_" \o id

cacheKey(action, id) ==
    IF action = "getStudents" THEN "students_list" ELSE studentKey(id)

invalidated_notOnAdd(action, id) ==
    IF action = "addStudent" THEN <<>> ELSE <<studentKey(id), "students_list">>

\* the keys a mutating action removes before its request, in the order it removes them
invalidated(action, id) ==
    IF action = "addStudent" THEN <<"students_list">>
    ELSE <<studentKey(id), "students_list">>

backoff_constant(retries) == 1000

\* 1000 * (4 - retries)
backoff(retries) == 1000 * (4 - retries)

canRetry_oneLess(retries) == retries > 1

\* if (retries > 0)
canRetry(retries) == retries > 0

isAbort_never(kind) == FALSE

\* error.name === 'AbortError'
isAbort(kind) == kind = "timeout"

\* no timer that is still armed is due before t
TimersAllow(t) ==
    \A s \in DOMAIN call :
        /\ call[s].pc = "fetch" => t <= call[s].attemptAt + TIMEOUT
        /\ call[s].pc = "delay" => t <= call[s].wake

Later(t) == IF t > now THEN t ELSE now

request_noConfigCheck(c, retries, t) ==
    [c EXCEPT !.pc = "fetch", !.retries = retries, !.attempts = @ + 1,
              !.attemptAt = t, !.served = FALSE,
              !.sent = Append(@, Payload(c))]

\* request(data, retries): the configuration check, then the fetch is issued
request(c, retries, t) ==
    IF ~configured
    THEN [c EXCEPT !.pc = "threw", !.outcome = "notConfigured", !.err = "notConfigured"]
    ELSE [c EXCEPT !.pc = "fetch", !.retries = retries, !.attempts = @ + 1,
                   !.attemptAt = t, !.served = FALSE,
                   !.sent = Append(@, Payload(c))]

\* the catch branch of request, for an attempt that failed with kind
caught(c, kind, t) ==
    LET d == [c EXCEPT !.fails = IF kind = "timeout" THEN @ ELSE @ + 1,
                       !.lastKind = kind]
    IN  IF isAbort(kind)
        THEN [d EXCEPT !.pc = "threw", !.outcome = "timeout", !.err = "timeout"]
        ELSE IF canRetry(c.retries)
             THEN [d EXCEPT !.pc = "delay", !.wake = t + backoff(c.retries)]
             ELSE [d EXCEPT !.pc = "threw", !.outcome = "error", !.err = kind]

surfaced_retried(c, t) == caught(c, "app", t)

\* the action's else branch: throw new Error(response.message || ...), outside request
surfaced(c, t) == [c EXCEPT !.pc = "threw", !.err = "app"]

(***************************************************************************)
(* The endpoint: doPost on the Students sheet                              *)
(***************************************************************************)
\* A row of the Students sheet, of its columns the ones the handlers test: ID, Name,
\* Roll Number.  "" is an empty cell, or a field the request does not give.
Row(id, name, rollNo) == [id |-> id, name |-> name, rollNo |-> rollNo]

Resp(success, message, value) ==
    [success |-> success, message |-> message, value |-> value]

Handled(resp, sh) == [resp |-> resp, sheet |-> sh]

\* getAllStudents(): the data rows, those with an empty ID cell skipped
getAllStudents(sh) == SelectSeq(sh, LAMBDA r : r.id # "")

\* addStudent(student)
addStudent(student, sh) ==
    IF student.name = "" \/ student.rollNo = ""
    THEN Handled(Resp(FALSE, "Missing required fields", NoValue), sh)
    ELSE IF \E i \in 1..Len(getAllStudents(sh)) :
                getAllStudents(sh)[i].rollNo = student.rollNo
         THEN Handled(Resp(FALSE, "Student with this roll number already exists",
                           NoValue), sh)
         ELSE Handled(Resp(TRUE, "Student added successfully", NoValue),
                      Append(sh, Row(student.id, student.name, student.rollNo)))

\* getStudents()
getStudents(sh) ==
    LET students == getAllStudents(sh)
    IN  Handled(Resp(TRUE, "", ListValue({students[i].id : i \in 1..Len(students)})), sh)

\* getStudent(studentId)
getStudent(studentId, sh) ==
    IF \E i \in 1..Len(getAllStudents(sh)) : getAllStudents(sh)[i].id = studentId
    THEN Handled(Resp(TRUE, "", StudentValue(studentId)), sh)
    ELSE Handled(Resp(FALSE, "Student not found", NoValue), sh)

\* the first data row whose ID cell equals studentId, 0 when there is none
FirstRow(studentId, sh) ==
    IF \E i \in 1..Len(sh) : sh[i].id = studentId
    THEN CHOOSE i \in 1..Len(sh) :
            sh[i].id = studentId /\ \A j \in 1..(i - 1) : sh[j].id # studentId
    ELSE 0

\* updateStudent(studentId, updates): updates is a function from column keys to values
updateStudent(studentId, updates, sh) ==
    LET i == FirstRow(studentId, sh)
    IN  IF i = 0
        THEN Handled(Resp(FALSE, "Student not found", NoValue), sh)
        ELSE Handled(Resp(TRUE, "Student updated successfully", NoValue),
                     [sh EXCEPT ![i] =
                         [f \in DOMAIN sh[i] |->
                             IF f \in DOMAIN updates THEN updates[f] ELSE sh[i][f]]])

\* deleteStudent(studentId)
deleteStudent(studentId, sh) ==
    LET i == FirstRow(studentId, sh)
    IN  IF i = 0
        THEN Handled(Resp(FALSE, "Student not found", NoValue), sh)
        ELSE Handled(Resp(TRUE, "Student deleted successfully", NoValue),
                     SubSeq(sh, 1, i - 1) \o SubSeq(sh, i + 1, Len(sh)))

dispatch_knowsUniqueId(p, sh) ==
    CASE p.action = "addStudent" -> addStudent(p.student, sh)
      [] p.action = "getStudents" -> getStudents(sh)
      [] p.action = "getStudent" -> getStudent(p.studentId, sh)
      [] p.action = "updateStudent" -> updateStudent(p.studentId, p.updates, sh)
      [] p.action = "deleteStudent" -> deleteStudent(p.studentId, sh)
      [] p.action = "generateStudentId" -> Handled(Resp(TRUE, "", NoValue), sh)
      [] p.action = "getStudentByUniqueId" -> getStudent(p.studentId, sh)
      [] OTHER -> Handled(Resp(FALSE, "Invalid action", NoValue), sh)

\* the switch of doPost
dispatch(p, sh) ==
    CASE p.action = "addStudent" -> addStudent(p.student, sh)
      [] p.action = "getStudents" -> getStudents(sh)
      [] p.action = "getStudent" -> getStudent(p.studentId, sh)
      [] p.action = "updateStudent" -> updateStudent(p.studentId, p.updates, sh)
      [] p.action = "deleteStudent" -> deleteStudent(p.studentId, sh)
      [] p.action = "generateStudentId" -> Handled(Resp(TRUE, "", NoValue), sh)
      [] OTHER -> Handled(Resp(FALSE, "Invalid action", NoValue), sh)

\* the sheet doPost leaves
doPostSheet(p, sh) == dispatch(p, sh).sheet

\* the response doPost sends
doPost(p, sh) == dispatch(p, sh).resp

\* no saveToStorage is followed in steps
NoStack == frames = <<>> /\ quota = QuotaAmple /\ thrown = "none"

\* nobody is logged in and the session slot is absent
NoUser == [loggedIn |-> FALSE, loginTime |-> 0, lastActivity |-> 0, since |-> 0]

NoAuth == user = NoUser /\ session = NoUser

(***************************************************************************)
(* Blobs a previous page of the program can have left in the slot          *)
(***************************************************************************)
InitBlobs ==
    { Absent, Corrupt, Unreadable, Stringify(<<>>),
      Stringify(<<newItem("students_list", [data |-> {}, len |-> LenSmall],
                          DURATION_STUDENTS, 0)>>),
      Stringify(<<newItem("student_s1", [data |-> {"s1"}, len |-> LenSmall],
                          DURATION_STUDENTS, 0),
                  newItem("student_unique_s1", [data |-> {"s1"}, len |-> LenSmall],
                          DURATION_STUDENTS, 0)>>) }

InitCache ==
    /\ now = StartNow
    /\ ticks = 0
    /\ ops = 0
    /\ enabled \in BOOLEAN
    /\ stored \in InitBlobs
    /\ cache = constructor(stored).cache
    /\ hist = NoHist
    /\ configured = TRUE
    /\ sheet = <<>>
    /\ call = [s \in Callers |-> IdleCall]
    /\ callsLeft = 0
    /\ faultsLeft = 0
    /\ lastList = NoLast
    /\ NoStack
    /\ NoAuth

(***************************************************************************)
(* Actions of the cache                                                    *)
(***************************************************************************)
Tick ==
    /\ ticks < MaxTicks
    /\ now' = now + 1
    /\ ticks' = ticks + 1
    /\ UNCHANGED <<stackVars, authVars, ops, enabled, cache, stored, hist, apiVars>>

CacheGet ==
    /\ ops < MaxOps
    /\ \E k \in Keys, q \in QuotasFor(stored) : \E ovf \in Ovfs(q) :
        LET g == get(enabled, cache, stored, k, now, q, ovf)
        IN  /\ cache' = g.save.cache
            /\ stored' = g.save.stored
            /\ hist' = [Hist("get", k, IF g.purged THEN Delete(cache, k) ELSE cache, g.save)
                          EXCEPT !.found = g.found, !.result = g.value,
                                 !.had = Has(cache, k),
                                 !.hadExpiresAt =
                                     IF Has(cache, k) THEN Item(cache, k).expiresAt ELSE 0,
                                 !.over = g.purged /\ JsonLen(Delete(cache, k)) > maxSize]
    /\ ops' = ops + 1
    /\ UNCHANGED <<stackVars, authVars, now, ticks, enabled, apiVars>>

CacheSet ==
    /\ ops < MaxOps
    /\ \E k \in Keys, v \in Values, d \in Durations, q \in QuotasFor(stored) : \E ovf \in Ovfs(q) :
        LET r == set(enabled, cache, stored, k, v, d, now, q, ovf)
            pre == IF enabled THEN Assign(cache, k, newItem(k, v, d, now)) ELSE cache
        IN  /\ cache' = r.cache
            /\ stored' = r.stored
            /\ hist' = [Hist("set", k, pre, r)
                          EXCEPT !.value = v, !.d = d,
                                 !.over = enabled /\ JsonLen(pre) > maxSize]
    /\ ops' = ops + 1
    /\ UNCHANGED <<stackVars, authVars, now, ticks, enabled, apiVars>>

CacheRemove ==
    /\ ops < MaxOps
    /\ \E k \in Keys, q \in QuotasFor(stored) : \E ovf \in Ovfs(q) :
        LET r == remove(cache, stored, k, q, ovf)
        IN  /\ cache' = r.cache
            /\ stored' = r.stored
            /\ hist' = [Hist("remove", k, Delete(cache, k), r)
                          EXCEPT !.had = Has(cache, k),
                                 !.hadExpiresAt =
                                     IF Has(cache, k) THEN Item(cache, k).expiresAt ELSE 0]
    /\ ops' = ops + 1
    /\ UNCHANGED <<stackVars, authVars, now, ticks, enabled, apiVars>>

CacheClear ==
    /\ ops < MaxOps
    /\ \E q \in QuotasFor(stored) : \E ovf \in Ovfs(q) :
        LET r == clear(stored, q, ovf)
        IN  /\ cache' = r.cache
            /\ stored' = r.stored
            /\ hist' = [Hist("clear", "", <<>>, r) EXCEPT !.had = cache # <<>>]
    /\ ops' = ops + 1
    /\ UNCHANGED <<stackVars, authVars, now, ticks, enabled, apiVars>>

CacheInvalidatePattern ==
    /\ ops < MaxOps
    /\ \E p \in Patterns, q \in QuotasFor(stored) : \E ovf \in Ovfs(q) :
        LET r == invalidatePattern(cache, stored, p, q, ovf)
        IN  /\ cache' = r.cache
            /\ stored' = r.stored
            /\ hist' = [Hist("invalidatePattern", "",
                              SelectSeq(cache, LAMBDA e : ~Matches(p, e.key)), r)
                          EXCEPT !.pattern = p,
                                 !.over = JsonLen(cache) > maxSize,
                                 !.had = \E k \in KeysOf(cache) : Matches(p, k)]
    /\ ops' = ops + 1
    /\ UNCHANGED <<stackVars, authVars, now, ticks, enabled, apiVars>>

\* the page is loaded again: new CacheManager() on the storage as it is
CacheReload ==
    /\ ops < MaxOps
    /\ LET r == constructor(stored)
       IN  /\ cache' = r.cache
           /\ hist' = [Hist("constructor", "", cache,
                             SaveResult(r.cache, stored, r.threw, FALSE, 0))
                          EXCEPT !.over = FALSE]
    /\ ops' = ops + 1
    /\ UNCHANGED <<stackVars, authVars, now, ticks, enabled, stored, apiVars>>

CacheGetStats ==
    /\ ops < MaxOps
    /\ hist' = [Hist("getStats", "", cache, SaveResult(cache, stored, FALSE, FALSE, 0))
                  EXCEPT !.over = FALSE, !.total = getStatsTotal(cache)]
    /\ ops' = ops + 1
    /\ UNCHANGED <<stackVars, authVars, now, ticks, enabled, cache, stored, apiVars>>

NextCache ==
    \/ Tick
    \/ CacheGet
    \/ CacheSet
    \/ CacheRemove
    \/ CacheClear
    \/ CacheInvalidatePattern
    \/ CacheGetStats
    \/ CacheReload

SpecCache == InitCache /\ [][NextCache]_vars

(***************************************************************************)
(* Actions of the API                                                      *)
(***************************************************************************)
InitApi ==
    /\ now = StartNow
    /\ ticks = 0
    /\ ops = 0
    /\ hist = NoHist
    /\ enabled \in BOOLEAN
    /\ configured \in BOOLEAN
    /\ stored \in {Absent, Stringify(<<newItem("students_list", ListValue({}),
                                              DURATION_STUDENTS, 0)>>)}
    /\ cache = loadFromStorage(stored)
    /\ sheet \in {<<>>, <<Row("s1", "Name", "CS101")>>}
    /\ call = [s \in Callers |-> IdleCall]
    /\ callsLeft = MaxCalls
    /\ faultsLeft = MaxFaults
    /\ lastList = NoLast
    /\ NoStack
    /\ NoAuth

\* one call, with failures enough to use up its retries
InitRequest ==
    /\ now = StartNow
    /\ ticks = 0
    /\ ops = 0
    /\ hist = NoHist
    /\ enabled \in BOOLEAN
    /\ configured \in BOOLEAN
    /\ stored = Absent
    /\ cache = loadFromStorage(stored)
    /\ sheet \in {<<>>, <<Row("s1", "Name", "CS101")>>}
    /\ call = [s \in Callers |-> IdleCall]
    /\ callsLeft = 1
    /\ faultsLeft = MaxFaultsOneCall
    /\ lastList = NoLast
    /\ NoStack
    /\ NoAuth

Free(s) == ~Active(call[s]) /\ callsLeft > 0

NewCall(action, id) ==
    [IdleCall EXCEPT !.action = action, !.id = id, !.startedAt = now,
                     !.sheet0 = sheet]

\* addStudent / updateStudent / deleteStudent: remove the keys, then request
CallMutation(s) ==
    /\ Free(s)
    /\ \E action \in Mutations, id \in StudentIds, q \in QuotasFor(stored) : \E ovf \in Ovfs(q) :
        LET keys == invalidated(action, id)
            r == removeEach(keys, SaveResult(cache, stored, FALSE, FALSE, 0), q, ovf)
            c == [NewCall(action, id) EXCEPT
                     !.hadKeys = \E i \in 1..Len(keys) : Has(cache, keys[i])]
        IN  /\ cache' = r.cache
            /\ stored' = r.stored
            /\ call' = [call EXCEPT ![s] =
                           IF r.threw
                           THEN [c EXCEPT !.pc = "threw", !.outcome = "cache",
                                          !.err = "cache"]
                           ELSE request(c, DefaultRetries, now)]
    /\ callsLeft' = callsLeft - 1
    /\ lastList' = NoLast
    /\ UNCHANGED <<stackVars, authVars, now, ticks, ops, hist, enabled, configured, sheet, faultsLeft>>

\* getStudents / getStudent: the cache first, the request on a miss
CallRead(s) ==
    /\ Free(s)
    /\ \E action \in Reads, id \in StudentIds, q \in QuotasFor(stored) : \E ovf \in Ovfs(q) :
        LET g == get(enabled, cache, stored, cacheKey(action, id), now, q, ovf)
            c == [NewCall(action, IF action = "getStudents" THEN "" ELSE id) EXCEPT
                     !.after = IF action = "getStudents" THEN lastList ELSE NoLast]
        IN  /\ cache' = g.save.cache
            /\ stored' = g.save.stored
            /\ call' = [call EXCEPT ![s] =
                           IF g.save.threw
                           THEN [c EXCEPT !.pc = "threw", !.outcome = "cache",
                                          !.err = "cache"]
                           ELSE IF g.found
                                THEN [c EXCEPT !.pc = "returned", !.hit = TRUE,
                                               !.result = [success |-> TRUE,
                                                           value |-> g.value]]
                                ELSE request(c, DefaultRetries, now)]
    /\ callsLeft' = callsLeft - 1
    /\ lastList' = NoLast
    /\ UNCHANGED <<stackVars, authVars, now, ticks, ops, hist, enabled, configured, sheet, faultsLeft>>

\* the endpoint handles the request of the attempt in flight
Serve(s) ==
    /\ call[s].pc = "fetch" /\ ~call[s].served
    /\ sheet' = doPostSheet(Payload(call[s]), sheet)
    /\ call' = [call EXCEPT ![s].served = TRUE,
                            ![s].resp = doPost(Payload(call[s]), sheet)]
    /\ UNCHANGED <<stackVars, authVars, now, ticks, ops, hist, enabled, configured, cache, stored,
                   callsLeft, faultsLeft, lastList>>

\* fetch resolves with a 2xx response: clearTimeout, then response.json() is awaited
FetchOk(s) ==
    /\ call[s].pc = "fetch" /\ call[s].served
    /\ call' = [call EXCEPT ![s].pc = "body"]
    /\ UNCHANGED <<stackVars, authVars, now, ticks, ops, hist, enabled, configured, cache, stored,
                   sheet, callsLeft, faultsLeft, lastList>>

\* fetch resolves with a non-2xx status, or rejects with a network error
FetchFails(s) ==
    /\ call[s].pc = "fetch"
    /\ faultsLeft > 0
    /\ faultsLeft' = faultsLeft - 1
    /\ call' = [call EXCEPT ![s] = caught(call[s], "fetch", now)]
    /\ UNCHANGED <<stackVars, authVars, now, ticks, ops, hist, enabled, configured, cache, stored,
                   sheet, callsLeft, lastList>>

\* the timeout timer fires while fetch is pending: controller.abort()
Timeout(s) ==
    /\ call[s].pc = "fetch"
    /\ TimersAllow(call[s].attemptAt + TIMEOUT)
    /\ now' = Later(call[s].attemptAt + TIMEOUT)
    /\ faultsLeft > 0
    /\ faultsLeft' = faultsLeft - 1
    /\ call' = [call EXCEPT ![s] =
                   caught([call[s] EXCEPT !.abortedAttempt = call[s].attempts],
                          "timeout", now')]
    /\ UNCHANGED <<stackVars, authVars, ticks, ops, hist, enabled, configured, cache, stored,
                   sheet, callsLeft, lastList>>

\* response.json() rejects: the body is no JSON
BodyFails(s) ==
    /\ call[s].pc = "body"
    /\ faultsLeft > 0
    /\ faultsLeft' = faultsLeft - 1
    /\ call' = [call EXCEPT ![s] = caught(call[s], "parse", now)]
    /\ UNCHANGED <<stackVars, authVars, now, ticks, ops, hist, enabled, configured, cache, stored,
                   sheet, callsLeft, lastList>>

\* response.json() resolves: request returns and the action handles the response
BodyOk(s) ==
    /\ call[s].pc = "body"
    /\ \E q \in QuotasFor(stored) : \E ovf \in Ovfs(q) :
        LET c == [call[s] EXCEPT !.outcome = "value",
                                 !.result = call[s].resp]
            caches == c.action \in Reads /\ c.resp.success
            item == newItem(cacheKey(c.action, c.id), c.resp.value,
                            DURATION_STUDENTS, now)
            r == IF caches
                 THEN set(enabled, cache, stored, cacheKey(c.action, c.id),
                          c.resp.value, DURATION_STUDENTS, now, q, ovf)
                 ELSE SaveResult(cache, stored, FALSE, FALSE, 0)
            alone == \A o \in DOMAIN call \ {s} : ~Active(call[o])
        IN  /\ cache' = r.cache
            /\ stored' = r.stored
            /\ call' = [call EXCEPT ![s] =
                           IF ~c.resp.success
                           THEN surfaced(c, now)
                           ELSE IF r.threw
                                THEN [c EXCEPT !.pc = "threw", !.err = "cache"]
                                ELSE [c EXCEPT !.pc = "returned"]]
            /\ lastList' =
                   IF c.action = "getStudents" /\ c.resp.success /\ ~r.threw /\ alone
                   THEN [valid |-> TRUE, at |-> now, attempts |-> c.attempts,
                         kept |-> /\ enabled
                                  /\ ~r.quotaFail
                                  /\ JsonLen(Assign(cache, item.key, item)) <= maxSize,
                         value |-> c.resp.value]
                   ELSE NoLast
    /\ UNCHANGED <<stackVars, authVars, now, ticks, ops, hist, enabled, configured, sheet, callsLeft,
                   faultsLeft>>

\* the delay before a retry is over: request(data, retries - 1)
DelayDone(s) ==
    /\ call[s].pc = "delay"
    /\ TimersAllow(call[s].wake)
    /\ now' = Later(call[s].wake)
    /\ call' = [call EXCEPT ![s] =
                   request([call[s] EXCEPT
                               !.waited = Append(@, now' - (call[s].wake
                                                    - backoff(call[s].retries)))],
                           call[s].retries - 1, now')]
    /\ UNCHANGED <<stackVars, authVars, ticks, ops, hist, enabled, configured, cache, stored,
                   sheet, callsLeft, faultsLeft, lastList>>

\* time passes, no further than the next armed timer
ApiTick ==
    /\ ticks < MaxApiTicks
    /\ \E step \in {1, DURATION_STUDENTS} :
        /\ TimersAllow(now + step)
        /\ now' = now + step
    /\ ticks' = ticks + 1
    /\ UNCHANGED <<stackVars, authVars, ops, hist, enabled, configured, cache, stored, sheet, call,
                   callsLeft, faultsLeft, lastList>>

NextApi ==
    \/ ApiTick
    \/ \E s \in DOMAIN call : CallMutation(s)
    \/ \E s \in DOMAIN call : CallRead(s)
    \/ \E s \in DOMAIN call : Serve(s)
    \/ \E s \in DOMAIN call : FetchOk(s)
    \/ \E s \in DOMAIN call : FetchFails(s)
    \/ \E s \in DOMAIN call : Timeout(s)
    \/ \E s \in DOMAIN call : BodyFails(s)
    \/ \E s \in DOMAIN call : BodyOk(s)
    \/ \E s \in DOMAIN call : DelayDone(s)

SpecApi == InitApi /\ [][NextApi]_vars

SpecRequest == InitRequest /\ [][NextApi]_vars

\* two calls that may overlap: the second can start while the first is suspended
InitOverlap ==
    /\ now = StartNow
    /\ ticks = 0
    /\ ops = 0
    /\ hist = NoHist
    /\ enabled = TRUE
    /\ configured = TRUE
    /\ stored = Absent
    /\ cache = loadFromStorage(stored)
    /\ sheet \in {<<>>, <<Row("s1", "Name", "CS101")>>}
    /\ call = [s \in OverlapCallers |-> IdleCall]
    /\ callsLeft = MaxCalls
    /\ faultsLeft = MaxFaults
    /\ lastList = NoLast
    /\ NoStack
    /\ NoAuth

SpecOverlap == InitOverlap /\ [][NextApi]_vars

(***************************************************************************)
(* The endpoint alone: doPost called by any client of the web app          *)
(***************************************************************************)
MaxPosts == 3

PostIds == {"", "s1", "s2"}
PostNames == {"", "Name"}
PostRollNos == {"", "CS101", "CS102"}
PostStudents == {Row(id, name, rollNo) : id \in PostIds, name \in PostNames,
                                          rollNo \in PostRollNos}
PostUpdates == {[f \in {"rollNo"} |-> r] : r \in PostRollNos}
                  \cup {[f \in {"name"} |-> "Name"]}
\* "" stands for a body without action
PostActions == {"getStudents", "getStudent", "deleteStudent", "generateStudentId",
                "saveIdCard", "getStudentByUniqueId", ""}

Posts ==
    {[action |-> "addStudent", studentId |-> "", student |-> st, updates |-> NoUpdates] :
        st \in PostStudents}
    \cup {[action |-> "updateStudent", studentId |-> id, student |-> NoStudent,
            updates |-> u] : id \in PostIds, u \in PostUpdates}
    \cup {[action |-> a, studentId |-> id, student |-> NoStudent,
            updates |-> NoUpdates] : a \in PostActions, id \in PostIds}

InitBackend ==
    /\ now = StartNow
    /\ ticks = 0
    /\ ops = 0
    /\ hist = NoHist
    /\ enabled = TRUE
    /\ configured = TRUE
    /\ stored = Absent
    /\ cache = <<>>
    /\ sheet = <<>>
    /\ call = [s \in Callers |-> IdleCall]
    /\ callsLeft = 0
    /\ faultsLeft = 0
    /\ lastList = NoLast
    /\ NoStack
    /\ NoAuth

\* doPost(e), hist keeps the request, the sheet it found and the response
BackendPost ==
    /\ ops < MaxPosts
    /\ \E p \in Posts :
        /\ sheet' = doPostSheet(p, sheet)
        /\ hist' = [op |-> "doPost", payload |-> p, before |-> sheet,
                    resp |-> doPost(p, sheet)]
    /\ ops' = ops + 1
    /\ UNCHANGED <<stackVars, authVars, now, ticks, enabled, cache, stored, configured, call, callsLeft,
                   faultsLeft, lastList>>

NextBackend == BackendPost

SpecBackend == InitBackend /\ [][NextBackend]_vars

(***************************************************************************)
(* saveToStorage step by step: the call stack of saveToStorage,            *)
(* clearOldEntries and clear under a cache operation, and the exception in *)
(* flight.  MaxStack is the number of frames the engine's stack holds; a   *)
(* call on a full stack throws a RangeError.                               *)
(***************************************************************************)
MaxStack == 12
MaxSaves == 2

Frame(fn, pc) == [fn |-> fn, pc |-> pc]

Top == frames[Len(frames)]

Pop == SubSeq(frames, 1, Len(frames) - 1)

SetPc(pc) == [frames EXCEPT ![Len(frames)].pc = pc]

\* the top frame is inside the try block of saveToStorage
InTry == Top.fn = "saveToStorage" /\ Top.pc \in {"try", "setItem"}

\* the top frame calls fn and goes on at pc when fn returns; on a full stack the
\* call throws where it stands
Call(pc, fn) ==
    IF Len(frames) < MaxStack
    THEN /\ frames' = Append(SetPc(pc),
                             Frame(fn, IF fn = "saveToStorage" THEN "try" ELSE "start"))
         /\ thrown' = "none"
    ELSE /\ frames' = frames
         /\ thrown' = "RangeError"

InitSave ==
    /\ now = StartNow
    /\ ticks = 0
    /\ ops = 0
    /\ hist = NoHist
    /\ enabled = TRUE
    /\ configured = TRUE
    /\ stored \in {Absent, Unreadable, Stringify(<<>>)}
    /\ cache = constructor(stored).cache
    /\ sheet = <<>>
    /\ call = [s \in Callers |-> IdleCall]
    /\ callsLeft = 0
    /\ faultsLeft = 0
    /\ lastList = NoLast
    /\ frames = <<>>
    /\ quota \in QuotasFor(stored)
    /\ thrown = "none"
    /\ NoAuth

\* set(key, value) with the cache enabled: the entry is assigned and saveToStorage
\* called, with one or two frames of the page under it
SaveSet ==
    /\ frames = <<>> /\ thrown = "none"
    /\ ops < MaxSaves
    /\ \E k \in Keys, v \in Values, depth \in {1, 2} :
        /\ cache' = Assign(cache, k, newItem(k, v, DURATION_STUDENTS, now))
        /\ frames' = [i \in 1..depth |-> Frame("caller", "called")]
                         \o <<Frame("saveToStorage", "try")>>
    /\ ops' = ops + 1
    /\ UNCHANGED <<now, ticks, enabled, stored, hist, apiVars, quota, thrown, authVars>>

\* saveToStorage: the size is taken and compared with the ceiling; JSON.stringify
\* may find no room on a full stack
SaveSize ==
    /\ frames # <<>> /\ thrown = "none"
    /\ Top = Frame("saveToStorage", "try")
    /\ \/ /\ Len(frames) = MaxStack
          /\ frames' = frames
          /\ thrown' = "RangeError"
       \/ IF JsonLen(cache) > maxSize
          THEN Call("setItem", "clearOldEntries")
          ELSE frames' = SetPc("setItem") /\ thrown' = thrown
    /\ UNCHANGED <<now, ticks, ops, enabled, cache, stored, hist, apiVars, quota,
                   authVars>>

\* clearOldEntries: the oldest half is deleted, then saveToStorage is called
SaveClearOldEntries ==
    /\ frames # <<>> /\ thrown = "none"
    /\ Top = Frame("clearOldEntries", "start")
    /\ cache' = DeleteOldest(cache)
    /\ Call("called", "saveToStorage")
    /\ UNCHANGED <<now, ticks, ops, enabled, stored, hist, apiVars, quota, authVars>>

\* localStorage.setItem(this.storageKey, JSON.stringify(this.cache))
SaveSetItem ==
    /\ frames # <<>> /\ thrown = "none"
    /\ Top = Frame("saveToStorage", "setItem")
    /\ IF stored.kind = "unreadable"
       THEN frames' = frames /\ thrown' = "SecurityError" /\ stored' = stored
       ELSE IF Fits(cache, quota)
            THEN frames' = Pop /\ thrown' = thrown /\ stored' = Stringify(cache)
            ELSE frames' = frames /\ thrown' = "QuotaExceededError" /\ stored' = stored
    /\ UNCHANGED <<now, ticks, ops, enabled, cache, hist, apiVars, quota, authVars>>

\* the catch of saveToStorage takes an exception thrown in its try block: a quota
\* error goes on to this.clear(), any other error ends the function
SaveCatch ==
    /\ frames # <<>> /\ thrown # "none"
    /\ InTry
    /\ frames' = IF thrown = "QuotaExceededError" THEN SetPc("catch") ELSE Pop
    /\ thrown' = "none"
    /\ UNCHANGED <<now, ticks, ops, enabled, cache, stored, hist, apiVars, quota,
                   authVars>>

\* this.clear() in the catch block
SaveCatchClear ==
    /\ frames # <<>> /\ thrown = "none"
    /\ Top = Frame("saveToStorage", "catch")
    /\ Call("done", "clear")
    /\ UNCHANGED <<now, ticks, ops, enabled, cache, stored, hist, apiVars, quota,
                   authVars>>

\* clear: the mapping is emptied, then saveToStorage is called
SaveClear ==
    /\ frames # <<>> /\ thrown = "none"
    /\ Top = Frame("clear", "start")
    /\ cache' = <<>>
    /\ Call("called", "saveToStorage")
    /\ UNCHANGED <<now, ticks, ops, enabled, stored, hist, apiVars, quota, authVars>>

\* a function whose callee has returned returns too; the last one returns to the page
SaveReturn ==
    /\ frames # <<>> /\ thrown = "none"
    /\ Top.pc \in {"called", "done"}
    /\ frames' = IF Top.fn = "caller" THEN <<>> ELSE Pop
    /\ UNCHANGED <<now, ticks, ops, enabled, cache, stored, hist, apiVars, quota,
                   thrown, authVars>>

\* an exception thrown outside a try block leaves the function: it stops at the
\* frames of the page, which have no handler for it
SaveUnwind ==
    /\ frames # <<>> /\ thrown # "none"
    /\ ~InTry
    /\ Top.fn # "caller"
    /\ frames' = Pop
    /\ UNCHANGED <<now, ticks, ops, enabled, cache, stored, hist, apiVars, quota,
                   thrown, authVars>>

NextSave ==
    \/ SaveSet
    \/ SaveSize
    \/ SaveClearOldEntries
    \/ SaveSetItem
    \/ SaveCatch
    \/ SaveCatchClear
    \/ SaveClear
    \/ SaveReturn
    \/ SaveUnwind

SpecSave == InitSave /\ [][NextSave]_vars

(***************************************************************************)
(* AuthManager: this.user and the session slot of localStorage.  A user    *)
(* record carries loginTime and lastActivity as the program writes them,   *)
(* and since, the time of the login it stems from, which no operation but  *)
(* login sets.                                                             *)
(***************************************************************************)
SESSION_TIMEOUT == 24 * 60 * 60 * 1000
MaxAuthOps == 3
MaxAuthTicks == 2

\* the user object login builds
NewUser(t) == [loggedIn |-> TRUE, loginTime |-> t, lastActivity |-> 0, since |-> t]

\* saveSession(): the slot after it.  The write is caught when it fails; room says
\* whether the storage has room for a text longer than the one in the slot
saveSession(u, sess, st, room) ==
    IF st.kind = "unreadable" THEN sess
    ELSE IF room \/ (sess.loggedIn /\ (sess.lastActivity > 0 \/ u.lastActivity = 0))
         THEN u
         ELSE sess

\* loadSession(): the user it returns and the slot it leaves
loadSession(sess, st, t) ==
    IF st.kind = "unreadable" \/ ~sess.loggedIn
    THEN [user |-> NoUser, session |-> sess]
    ELSE IF t - sess.loginTime > SESSION_TIMEOUT
         THEN [user |-> NoUser, session |-> NoUser]
         ELSE [user |-> sess, session |-> sess]

AuthResult(u, sess, c, st, result, threw, loggedOut) ==
    [user |-> u, session |-> sess, cache |-> c, stored |-> st, result |-> result,
     threw |-> threw, loggedOut |-> loggedOut]

\* logout(): this.user = null, removeItem of the session slot, Cache.clear().  On a
\* storage that may not be used removeItem throws and nothing after it runs
logout(u, sess, c, st, q, ovf) ==
    IF st.kind = "unreadable"
    THEN AuthResult(NoUser, sess, c, st, FALSE, TRUE, TRUE)
    ELSE LET r == clear(st, q, ovf)
         IN  AuthResult(NoUser, NoUser, r.cache, r.stored, FALSE, r.threw, TRUE)

\* isSessionValid()
isSessionValid(u, sess, c, st, t, q, ovf) ==
    IF ~u.loggedIn THEN AuthResult(u, sess, c, st, FALSE, FALSE, FALSE)
    ELSE IF t - u.loginTime > SESSION_TIMEOUT
         THEN logout(u, sess, c, st, q, ovf)
         ELSE AuthResult(u, sess, c, st, TRUE, FALSE, FALSE)

\* isAuthenticated()
isAuthenticated(u, sess, c, st, t, q, ovf) ==
    LET l == IF u.loggedIn THEN [user |-> u, session |-> sess]
             ELSE loadSession(sess, st, t)
    IN  IF ~l.user.loggedIn
        THEN AuthResult(l.user, l.session, c, st, FALSE, FALSE, FALSE)
        ELSE isSessionValid(l.user, l.session, c, st, t, q, ovf)

updateSessionActivity_newLogin(u, t) ==
    IF u.loggedIn THEN [u EXCEPT !.lastActivity = t, !.loginTime = t] ELSE u

\* updateSessionActivity(): the user object it leaves
updateSessionActivity(u, t) ==
    IF u.loggedIn THEN [u EXCEPT !.lastActivity = t] ELSE u

\* the session a check at time t goes by: this.user, or else the slot
InUse(u, sess, st) ==
    IF u.loggedIn THEN u
    ELSE IF st.kind = "unreadable" THEN NoUser ELSE sess

NoAuthHist ==
    [op |-> "none", at |-> 0, result |-> FALSE, threw |-> FALSE, loggedOut |-> FALSE,
     expired |-> FALSE, user |-> NoUser, session |-> NoUser, cache |-> <<>>,
     stored |-> Absent]

\* the last operation: its result, and the state it found
AuthHist(op, r, expired) ==
    [op |-> op, at |-> now, result |-> r.result, threw |-> r.threw,
     loggedOut |-> r.loggedOut, expired |-> expired, user |-> user,
     session |-> session, cache |-> cache, stored |-> stored]

\* the room the storage can have when logout clears the cache: the session slot,
\* if there was one, has just been removed
QuotasAfterRemove(sess, st) ==
    {q \in QuotasFor(st) : sess.loggedIn => Fits(<<>>, q)}

InitAuth ==
    /\ now = StartNow + SESSION_TIMEOUT
    /\ ticks = 0
    /\ ops = 0
    /\ enabled = TRUE
    /\ configured = TRUE
    /\ stored \in {Absent, Unreadable}
    /\ cache = constructor(stored).cache
    /\ sheet = <<>>
    /\ call = [s \in Callers |-> IdleCall]
    /\ callsLeft = 0
    /\ faultsLeft = 0
    /\ lastList = NoLast
    /\ NoStack
    /\ user = NoUser
    /\ session \in IF stored.kind = "unreadable" THEN {NoUser}
                   ELSE {NoUser, NewUser(now), NewUser(now - SESSION_TIMEOUT)}
    /\ hist = NoAuthHist

AuthUnchanged == UNCHANGED <<ticks, enabled, apiVars, stackVars>>

\* login(username, password), with the right credentials or not
AuthLogin ==
    /\ ops < MaxAuthOps
    /\ \E right \in BOOLEAN, room \in BOOLEAN :
        LET u == IF right THEN NewUser(now) ELSE user
            sess == IF right THEN saveSession(u, session, stored, room) ELSE session
        IN  /\ user' = u
            /\ session' = sess
            /\ hist' = AuthHist("login",
                                AuthResult(u, sess, cache, stored, right, FALSE, FALSE),
                                FALSE)
    /\ ops' = ops + 1
    /\ UNCHANGED <<now, cache, stored>>
    /\ AuthUnchanged

\* logout(), from the logout button
AuthLogout ==
    /\ ops < MaxAuthOps
    /\ \E q \in QuotasAfterRemove(session, stored) : \E ovf \in Ovfs(q) :
        LET r == logout(user, session, cache, stored, q, ovf)
        IN  /\ user' = r.user
            /\ session' = r.session
            /\ cache' = r.cache
            /\ stored' = r.stored
            /\ hist' = AuthHist("logout", r, FALSE)
    /\ ops' = ops + 1
    /\ UNCHANGED now
    /\ AuthUnchanged

\* isAuthenticated() or getCurrentUser(), which returns on isAuthenticated()
AuthIsAuthenticated ==
    /\ ops < MaxAuthOps
    /\ \E op \in {"isAuthenticated", "getCurrentUser"},
          q \in QuotasAfterRemove(session, stored) : \E ovf \in Ovfs(q) :
        LET r == isAuthenticated(user, session, cache, stored, now, q, ovf)
            s == InUse(user, session, stored)
        IN  /\ user' = r.user
            /\ session' = r.session
            /\ cache' = r.cache
            /\ stored' = r.stored
            /\ hist' = AuthHist(op, r, s.loggedIn /\ now - s.since > SESSION_TIMEOUT)
    /\ ops' = ops + 1
    /\ UNCHANGED now
    /\ AuthUnchanged

\* a click or a key press: updateSessionActivity()
AuthUpdateSessionActivity ==
    /\ ops < MaxAuthOps
    /\ \E room \in BOOLEAN :
        LET u == updateSessionActivity(user, now)
            sess == IF user.loggedIn THEN saveSession(u, session, stored, room)
                    ELSE session
        IN  /\ user' = u
            /\ session' = sess
            /\ hist' = AuthHist("updateSessionActivity",
                                AuthResult(u, sess, cache, stored, FALSE, FALSE, FALSE),
                                FALSE)
    /\ ops' = ops + 1
    /\ UNCHANGED <<now, cache, stored>>
    /\ AuthUnchanged

\* the page is loaded again: new CacheManager(), new AuthManager(), whose
\* constructor sets this.user = null and calls loadSession() for nothing but the
\* removal of an expired slot
AuthReload ==
    /\ ops < MaxAuthOps
    /\ LET l == loadSession(session, stored, now)
       IN  /\ user' = NoUser
           /\ session' = l.session
           /\ cache' = constructor(stored).cache
           /\ hist' = AuthHist("constructor",
                               AuthResult(NoUser, l.session, cache', stored, FALSE,
                                          FALSE, FALSE),
                               FALSE)
    /\ ops' = ops + 1
    /\ UNCHANGED <<now, stored>>
    /\ AuthUnchanged

\* a list is cached while the page is used
AuthCacheSet ==
    /\ ops < MaxAuthOps
    /\ \E q \in QuotasFor(stored) : \E ovf \in Ovfs(q) :
        LET r == set(enabled, cache, stored, "students_list", ListValue({"s1"}),
                     DURATION_STUDENTS, now, q, ovf)
        IN  /\ cache' = r.cache
            /\ stored' = r.stored
            /\ hist' = AuthHist("set",
                                AuthResult(user, session, r.cache, r.stored, FALSE,
                                           r.threw, FALSE),
                                FALSE)
    /\ ops' = ops + 1
    /\ UNCHANGED <<now, user, session>>
    /\ AuthUnchanged

\* time passes
AuthTick ==
    /\ ticks < MaxAuthTicks
    /\ \E step \in {1, SESSION_TIMEOUT} : now' = now + step
    /\ ticks' = ticks + 1
    /\ UNCHANGED <<ops, enabled, cache, stored, hist, apiVars, stackVars, authVars>>

NextAuth ==
    \/ AuthLogin
    \/ AuthLogout
    \/ AuthIsAuthenticated
    \/ AuthUpdateSessionActivity
    \/ AuthReload
    \/ AuthCacheSet
    \/ AuthTick

SpecAuth == InitAuth /\ [][NextAuth]_vars

(***************************************************************************)
(* Claims about the cache                                                  *)
(***************************************************************************)
\* Entry i of c is older than entry j: smaller createdAt, or equal and enumerated first.
Older(c, i, j) ==
    \/ c[i].createdAt < c[j].createdAt
    \/ c[i].createdAt = c[j].createdAt /\ i < j

\* The m newest entries of c, in c's order.
Newest(c, m) ==
    LET keep == {j \in 1..Len(c) :
                    Cardinality({i \in 1..Len(c) : Older(c, i, j)}) >= Len(c) - m}
    IN  [n \in 1..Cardinality(keep) |->
            c[CHOOSE j \in keep : Cardinality({i \in keep : i < j}) = n - 1]]

\* The first of m, m/2, m/4, ... newest entries that serialize within the ceiling.
RECURSIVE FirstFit(_, _)
FirstFit(c, m) ==
    IF JsonLen(Newest(c, m)) <= maxSize THEN m ELSE FirstFit(c, m \div 2)

SetDone == hist.op = "set" /\ hist.en

\* C1 as stated: with the cache enabled, set(k, v, d) followed by get(k) returns v
\* as long as now < createdAt + d, whatever the store held and whatever the size of v.
C1_SetThenGetAnySize ==
    (SetDone /\ now < hist.at + hist.d)
        => LET g == Read(enabled, cache, hist.key, now)
           IN  g.found /\ g.value = hist.value

\* C1 amended: with the cache enabled, set(k, v, d) followed by get(k) returns v as
\* long as now < createdAt + d, provided the mapping with the new entry serializes
\* within the size ceiling and the storage write does not fail on quota.
C1_SetThenGet ==
    (SetDone /\ ~hist.over /\ ~hist.quotaFail /\ now < hist.at + hist.d)
        => LET g == Read(enabled, cache, hist.key, now)
           IN  g.found /\ g.value = hist.value

\* C1 witness: a set over prior content, read back later but before its expiry.
C1_Witness ==
    /\ SetDone /\ ~hist.over /\ ~hist.quotaFail
    /\ Len(hist.pre) >= 2
    /\ hist.at < now /\ now < hist.at + hist.d
    /\ Read(enabled, cache, hist.key, now).found

GetOnEntry == hist.op = "get" /\ hist.had

\* C2: with the cache enabled an entry is visible to get iff now < expiresAt; a get
\* at now >= expiresAt, the instant now = expiresAt included, returns absent, deletes
\* the key from the mapping and removes it from the persisted blob.
C2_ExpiredAtExpiresAt ==
    (GetOnEntry /\ hist.en)
        => /\ hist.found <=> hist.at < hist.hadExpiresAt
           /\ hist.at >= hist.hadExpiresAt
                => ~hist.found /\ ~Has(cache, hist.key) /\ ~Has(stored.map, hist.key)

\* C9 as stated: a persist that finds n entries above the ceiling evicts exactly the
\* ceil(n/2) oldest; the floor(n/2) newest survive in the mapping and in the blob.
C9_EvictsExactlyHalf ==
    hist.over
        => /\ cache = Newest(hist.pre, Len(hist.pre) \div 2)
           /\ stored = Stringify(cache)

\* C9 amended: a persist that finds n entries above the ceiling evicts the ceil(n/2)
\* oldest and halves the rest again while it is still above the ceiling; when the
\* storage write succeeds, the survivors in the mapping and in the blob are the
\* newest floor(n/2), floor(n/4), ... entries, the first that fit: exactly
\* floor(n/2) when those fit.
C9_EvictsByHalves ==
    (hist.over /\ ~hist.quotaFail)
        => LET n == Len(hist.pre)
               m == FirstFit(hist.pre, n \div 2)
           IN  /\ cache = Newest(hist.pre, m)
               /\ stored.kind # "unreadable" => stored = Stringify(cache)
               /\ JsonLen(cache) <= maxSize

\* C9 witness: three entries above the ceiling, the two oldest evicted, one left.
C9_Witness ==
    /\ hist.over /\ ~hist.quotaFail
    /\ Len(hist.pre) = 3
    /\ Len(cache) = 1
    /\ cache = Newest(hist.pre, 1)
    /\ stored = Stringify(cache)

\* C10: the blob in the storage slot never serializes above the ceiling.
C10_BlobWithinCeiling ==
    stored.kind = "map" => JsonLen(stored.map) <= maxSize

\* C10 witness: a persist found the mapping above the ceiling and wrote what was left.
C10_Witness ==
    /\ hist.over
    /\ hist.writes > 0
    /\ stored = Stringify(cache)
    /\ Len(stored.map) >= 1

(***************************************************************************)
(* Claims about the API                                                    *)
(***************************************************************************)
MutationKeys(c) ==
    IF c.action = "addStudent" THEN {"students_list"}
    ELSE {"students_list", "student_" \o c.id}

\* C3: once a mutating action has issued its request the cache holds no entry under
\* the list key nor, for update and delete, under the record key, and this stays so
\* while the request is retried and after the action has failed.
C3_InvalidatedBeforeSend ==
    \A s \in Callers :
        (call[s].action \in Mutations /\ call[s].attempts >= 1)
            => MutationKeys(call[s]) \cap KeysOf(cache) = {}

\* C3 witness: a mutation that found entries under its keys has failed.
C3_Witness ==
    \E s \in Callers :
        /\ call[s].action \in {"updateStudent", "deleteStudent"}
        /\ call[s].hadKeys
        /\ call[s].attempts >= 1
        /\ call[s].pc = "threw"
        /\ MutationKeys(call[s]) \cap KeysOf(cache) = {}

\* a getStudents call that follows at once a getStudents call that fetched the list
SecondGetStudents(c) ==
    /\ enabled
    /\ c.action = "getStudents"
    /\ c.after.valid

\* C4 as stated: with the cache enabled, a getStudents that starts within the TTL of
\* the entry cached by the successful getStudents before it is a cache hit, and the
\* two calls issue exactly one network request in total.
C4_ExactlyOneRequest ==
    \A s \in Callers :
        (SecondGetStudents(call[s])
           /\ call[s].startedAt < call[s].after.at + DURATION_STUDENTS)
            => /\ call[s].hit
               /\ call[s].after.attempts + call[s].attempts = 1

\* C4 amended: with the cache enabled, when the first call stored its entry (the
\* mapping within the ceiling, the write not failing on quota), a getStudents that
\* starts within the TTL of that entry is a cache hit that returns the cached list
\* and issues no network request; the network requests of the two calls are the
\* attempts of the first, exactly one when its first attempt succeeded.
C4_SecondCallIsHit ==
    \A s \in Callers :
        (SecondGetStudents(call[s])
           /\ call[s].after.kept
           /\ call[s].startedAt < call[s].after.at + DURATION_STUDENTS)
            => /\ call[s].hit
               /\ call[s].attempts = 0
               /\ call[s].after.attempts + call[s].attempts = call[s].after.attempts
               /\ call[s].pc = "returned"
               /\ call[s].result = [success |-> TRUE, value |-> call[s].after.value]

\* C4 witness: the second call, started later within the TTL, was a hit after a
\* first call that needed one attempt.
C4_Witness ==
    \E s \in Callers :
        /\ SecondGetStudents(call[s])
        /\ call[s].after.kept
        /\ call[s].after.attempts = 1
        /\ call[s].startedAt > call[s].after.at
        /\ call[s].hit
        /\ call[s].attempts = 0

\* C5: a request whose first two attempts fail (not by timeout) and whose third
\* succeeds returns the third response after exactly 3 attempts with the same
\* payload, having waited 1000 ms and then 2000 ms.
C5_RetryThenSuccess ==
    \A s \in Callers :
        (call[s].outcome = "value" /\ call[s].fails = 2)
            => /\ call[s].attempts = 3
               /\ call[s].waited = <<1000, 2000>>
               /\ call[s].sent = [i \in 1..3 |-> Payload(call[s])]
               /\ call[s].result = call[s].resp

\* C5 witness: a request that returned a response on its third attempt.
C5_Witness ==
    \E s \in Callers :
        /\ call[s].outcome = "value"
        /\ call[s].fails = 2
        /\ call[s].attempts = 3
        /\ call[s].result.success

C7_TimeoutIsTerminal ==
    \A s \in Callers :
        call[s].abortedAttempt > 0
            => /\ call[s].pc = "threw"
               /\ call[s].err = "timeout"
               /\ call[s].attempts = call[s].abortedAttempt

\* C7 witness: the first attempt, with 3 retries left, timed out.
C7_Witness ==
    \E s \in Callers :
        /\ call[s].abortedAttempt = 1
        /\ call[s].retries = 3
        /\ call[s].pc = "threw"

\* C8 as stated: no attempt is pending past the timeout, be it waiting for the
\* response or reading the response body.
C8_NoAttemptPastTimeout ==
    \A s \in Callers :
        call[s].pc \in {"fetch", "body"} => now <= call[s].attemptAt + TIMEOUT

(***************************************************************************)
(* Claims about the endpoint                                               *)
(***************************************************************************)
AddDone == hist.op = "doPost" /\ hist.payload.action = "addStudent"

\* C11: addStudent of a student (name and rollNo given) whose rollNo is the rollNo of
\* a row already in the sheet answers success false with the message 'Student with
\* this roll number already exists' and leaves the sheet as it was.
C11_DuplicateRollNoRefused ==
    (/\ AddDone
     /\ hist.payload.student.name # ""
     /\ hist.payload.student.rollNo # ""
     /\ \E i \in 1..Len(hist.before) :
            hist.before[i].rollNo = hist.payload.student.rollNo)
        => /\ hist.resp = Resp(FALSE, "Student with this roll number already exists",
                               NoValue)
           /\ sheet = hist.before

(***************************************************************************)
(* Claims about the API, continued                                         *)
(***************************************************************************)
\* caller s starts a read action in this step
ReadStarts(s) ==
    /\ ~Active(call[s])
    /\ callsLeft' = callsLeft - 1
    /\ call'[s].action \in Reads

ReadKey(c) ==
    IF c.action = "getStudents" THEN "students_list" ELSE "student_" \o c.id

\* C12: a getStudents / getStudent(id) that finds a live entry (now < expiresAt, cache
\* enabled) under 'students_list' / 'student_<id>' issues no network request and
\* returns success true with exactly the cached value.
C12_CacheFirst ==
    [][\A s \in Callers :
          (/\ ReadStarts(s)
           /\ enabled
           /\ Has(cache, ReadKey(call'[s]))
           /\ now < Item(cache, ReadKey(call'[s])).expiresAt)
              => /\ call'[s].pc = "returned"
                 /\ call'[s].hit
                 /\ call'[s].attempts = 0
                 /\ call'[s].sent = <<>>
                 /\ call'[s].result =
                        [success |-> TRUE,
                         value |-> Item(cache, ReadKey(call'[s])).value]]_vars

\* C12 witness: a getStudent(id) answered from the entry an earlier call cached.
C12_Witness ==
    \E s \in Callers :
        /\ call[s].action = "getStudent"
        /\ call[s].hit
        /\ call[s].attempts = 0
        /\ call[s].pc = "returned"
        /\ call[s].result = [success |-> TRUE, value |-> StudentValue(call[s].id)]
        /\ Has(cache, "student_" \o call[s].id)

\* C13 as stated: when the endpoint URL is not configured every API action fails
\* with the 'API not configured' error, without a network attempt, timer or retry.
C13_EveryActionFails ==
    \A s \in Callers :
        (~configured /\ call[s].action # "none")
            => /\ call[s].pc = "threw"
               /\ call[s].err = "notConfigured"
               /\ call[s].attempts = 0

\* C13 amended: when the endpoint URL is not configured no network attempt, timer or
\* retry is ever made, and every API action that calls request (a read that is not
\* answered from the cache, a mutation whose cache removal did not throw) fails with
\* the 'API not configured' error; a read that finds a live cache entry returns it.
C13_NotConfiguredFailsFast ==
    \A s \in Callers :
        ~configured
            => /\ call[s].pc \in {"idle", "threw", "returned"}
               /\ call[s].attempts = 0
               /\ call[s].sent = <<>>
               /\ call[s].waited = <<>>
               /\ (call[s].action # "none" /\ ~call[s].hit /\ call[s].err # "cache")
                     => call[s].pc = "threw" /\ call[s].err = "notConfigured"
               /\ call[s].pc = "returned" => call[s].hit

\* C13 witness: a mutation and nothing sent, failed as not configured.
C13_Witness ==
    \E s \in Callers :
        /\ ~configured
        /\ call[s].action = "addStudent"
        /\ call[s].pc = "threw"
        /\ call[s].err = "notConfigured"
        /\ call[s].attempts = 0

\* the endpoint answered the last attempt with a well-formed body, success false
Refused(c) == c.outcome = "value" /\ ~c.resp.success

\* C14: when the endpoint answers an attempt with a 2xx JSON body whose success is
\* false, request returns it and the action throws: the answered attempt is the last
\* one (the only one when no attempt failed before it), no delay and no retry follow.
C14_RefusalNotRetried ==
    \A s \in Callers :
        Refused(call[s])
            => /\ call[s].pc = "threw"
               /\ call[s].err = "app"
               /\ call[s].result = call[s].resp
               /\ call[s].attempts = call[s].fails + 1
               /\ Len(call[s].sent) = call[s].attempts
               /\ Len(call[s].waited) = call[s].fails
               /\ call[s].fails = 0 => call[s].attempts = 1

\* C14 witness: a getStudent of an unknown id, refused on the first attempt with
\* retries left.
C14_Witness ==
    \E s \in Callers :
        /\ Refused(call[s])
        /\ call[s].action = "getStudent"
        /\ call[s].resp.message = "Student not found"
        /\ call[s].attempts = 1
        /\ call[s].retries = 3
        /\ call[s].pc = "threw"

(***************************************************************************)
(* Claims about the cache, continued                                       *)
(***************************************************************************)
RemoveDone == hist.op = "remove"

\* C15: after remove(k), get(k) is absent and k is in neither the mapping nor the
\* persisted blob, whatever the entry's remaining TTL and whether the cache is
\* enabled or not; the other entries are kept, so removing an absent key leaves the
\* mapping unchanged.
C15_RemoveDeletesEverywhere ==
    RemoveDone
        => /\ ~Read(enabled, cache, hist.key, now).found
           /\ ~Has(cache, hist.key)
           /\ ~Has(loadFromStorage(stored), hist.key)
           /\ cache = hist.pre

\* C15 witness: the cache disabled, an unexpired hydrated entry removed and the blob
\* rewritten without it.
C15_Witness ==
    /\ RemoveDone
    /\ ~hist.en
    /\ hist.had
    /\ hist.at < hist.hadExpiresAt
    /\ ~Has(cache, hist.key)
    /\ stored = Stringify(cache)

\* C16: after clear() the mapping and the persisted blob hold no entry:
\* getStats().total is 0 and get(k) is absent for every key.
C16_ClearEmpties ==
    hist.op = "clear"
        => /\ cache = <<>>
           /\ loadFromStorage(stored) = <<>>
           /\ getStatsTotal(cache) = 0
           /\ \A k \in Keys : ~Read(enabled, cache, k, now).found

\* C16 witness: a clear of a cache that held entries, the empty mapping persisted.
C16_Witness ==
    /\ hist.op = "clear"
    /\ hist.had
    /\ hist.en
    /\ cache = <<>>
    /\ stored = Stringify(<<>>)

\* C17: with the cache disabled get(k) returns absent for every key, unexpired
\* hydrated entries included, and get and set change neither the mapping nor the
\* persisted blob.
C17_DisabledIsNoOp ==
    [][(~enabled /\ ops' = ops + 1 /\ hist'.op \in {"get", "set"})
          => /\ cache' = cache
             /\ stored' = stored
             /\ hist'.op = "get" => ~hist'.found]_vars

\* C17 witness: with the cache disabled, a get of an unexpired hydrated entry missed.
C17_Witness ==
    /\ hist.op = "get"
    /\ ~hist.en
    /\ hist.had
    /\ hist.at < hist.hadExpiresAt
    /\ ~hist.found
    /\ Has(cache, hist.key)

\* an operation that changed the mapping or rewrote the slot has completed: set
\* while enabled, remove, clear, invalidatePattern with a matching key, a get that
\* purged an expired entry
Mutated ==
    \/ hist.op = "set" /\ hist.en
    \/ hist.op \in {"remove", "clear"}
    \/ hist.op = "invalidatePattern" /\ hist.had
    \/ hist.op = "get" /\ hist.en /\ hist.had /\ ~hist.found

\* C18: when the storage writes succeed, after every completed mutating cache
\* operation the blob in the slot is the serialization of the current mapping.
C18_BlobIsMapping ==
    (Mutated /\ stored.kind # "unreadable" /\ ~hist.quotaFail /\ ~hist.threw)
        => stored = Stringify(cache)

\* C18 witness: a get purged an expired entry and the slot, which held the entry,
\* holds the serialization of what is left.
C18_Witness ==
    /\ hist.op = "get"
    /\ Mutated
    /\ ~hist.quotaFail
    /\ hist.at > hist.hadExpiresAt
    /\ ~Has(cache, hist.key)
    /\ stored = Stringify(cache)

\* C19: when a storage write fails with a quota error the cache drops all its
\* entries, the mapping becomes empty, the persist is retried with the empty
\* mapping, and no exception reaches the caller of the cache operation.
C19_QuotaFailSafe ==
    hist.quotaFail
        => /\ cache = <<>>
           /\ ~hist.threw
           /\ loadFromStorage(stored) = <<>>

\* C20: invalidatePattern(p) deletes exactly the keys that match p: every key
\* matching p is absent afterwards and every entry whose key does not match is
\* left unchanged.
C20_DeletesExactlyMatching ==
    hist.op = "invalidatePattern"
        => /\ \A k \in Keys : Matches(hist.pattern, k) => ~Has(cache, k)
           /\ cache = hist.pre

\* C21: invalidatePattern(p) writes the slot exactly once, after all the matching
\* keys have been deleted, whatever the number of matching keys.
C21_SingleWrite ==
    (hist.op = "invalidatePattern" /\ hist.had /\ ~hist.quotaFail) => hist.writes = 1

\* C22: get(k) on a live entry and getStats() in any state leave the mapping (the
\* value, createdAt and expiresAt of every entry) and the persisted blob unchanged.
C22_ReadOnly ==
    [][(/\ ops' = ops + 1
        /\ \/ hist'.op = "getStats"
           \/ /\ hist'.op = "get"
              /\ Has(cache, hist'.key)
              /\ now < Item(cache, hist'.key).expiresAt)
          => /\ cache' = cache
             /\ stored' = stored]_vars

\* C22 witness: a hit on a live entry that is still there with its expiry.
C22_Witness ==
    /\ hist.op = "get"
    /\ hist.en
    /\ hist.found
    /\ hist.at < hist.hadExpiresAt
    /\ Has(cache, hist.key)
    /\ Item(cache, hist.key).expiresAt = hist.hadExpiresAt

(***************************************************************************)
(* Claims about the backend, continued                                     *)
(***************************************************************************)
\* the cases of the switch of doPost
KnownActions == {"addStudent", "getStudents", "getStudent", "updateStudent",
                 "deleteStudent", "generateStudentId"}

\* C24: doPost answers every request whose action is none of addStudent,
\* getStudents, getStudent, updateStudent, deleteStudent, generateStudentId with
\* {success: false, message: 'Invalid action'} and leaves the sheet unchanged;
\* 'saveIdCard' and 'getStudentByUniqueId' are among them.
C24_InvalidAction ==
    /\ {"saveIdCard", "getStudentByUniqueId"} \cap KnownActions = {}
    /\ (hist.op = "doPost" /\ hist.payload.action \notin KnownActions)
          => /\ hist.resp = Resp(FALSE, "Invalid action", NoValue)
             /\ sheet = hist.before

\* C24 witness: getStudentByUniqueId for a student that is in the sheet, refused.
C24_Witness ==
    /\ hist.op = "doPost"
    /\ hist.payload.action = "getStudentByUniqueId"
    /\ \E i \in 1..Len(sheet) : sheet[i].id = hist.payload.studentId
    /\ hist.resp.message = "Invalid action"
    /\ sheet = hist.before

\* C27: starting from an empty sheet, after any sequence of backend addStudent,
\* updateStudent and deleteStudent actions no two rows have the same rollNo (here:
\* no two rows that have an ID and a rollNo).
C27_RollNoUnique ==
    \A i, j \in 1..Len(sheet) :
        (/\ i # j
         /\ sheet[i].id # "" /\ sheet[j].id # ""
         /\ sheet[i].rollNo # "")
            => sheet[i].rollNo # sheet[j].rollNo

(***************************************************************************)
(* Claims about the API and the remote sheet                               *)
(***************************************************************************)
\* the sheet has a row for the student
HasRow(sh, id) == \E i \in 1..Len(sh) : sh[i].id = id

\* C26: whenever addStudent ends by throwing, the sheet has no row for the student
\* (it had none when the call started); whenever deleteStudent ends by throwing, the
\* sheet still has the row it had when the call started.
C26_FailedDidNotHappen ==
    \A s \in DOMAIN call :
        call[s].pc = "threw"
            => /\ (call[s].action = "addStudent" /\ ~HasRow(call[s].sheet0, call[s].id))
                    => ~HasRow(sheet, call[s].id)
               /\ (call[s].action = "deleteStudent" /\ HasRow(call[s].sheet0, call[s].id))
                    => HasRow(sheet, call[s].id)

\* the students_list entry of the cache holds a list from before the mutation of
\* call c: one without the student added, or with the student deleted
StaleList(c) ==
    /\ Has(cache, "students_list")
    /\ \/ c.action = "addStudent" /\ c.id \notin Item(cache, "students_list").value.data
       \/ c.action = "deleteStudent" /\ c.id \in Item(cache, "students_list").value.data

\* C25: for every interleaving of a getStudents call with a mutation, once the
\* mutation has returned success the cache never holds a students_list entry whose
\* content is the list from before the mutation.
C25_NoStaleList ==
    \A s \in DOMAIN call :
        (call[s].action \in Mutations /\ call[s].pc = "returned") => ~StaleList(call[s])

(***************************************************************************)
(* Claims about the cache, continued                                       *)
(***************************************************************************)
\* C23: when the persisted blob is missing, cannot be read or does not parse, the
\* CacheManager starts with an empty mapping and its construction does not fail.
C23_HydrationFailSafe ==
    /\ (hist.op = "none" /\ ops = 0 /\ stored.kind # "map") => cache = <<>>
    /\ (hist.op = "constructor" /\ stored.kind # "map")
          => /\ cache = <<>>
             /\ ~hist.threw
             /\ \A k \in Keys : ~Read(enabled, cache, k, now).found

\* C23 witness: the page loaded again on a slot that holds no mapping, after the
\* mapping had entries in memory.
C23_Witness ==
    /\ hist.op = "constructor"
    /\ stored.kind \in {"corrupt", "unreadable"}
    /\ hist.pre # <<>>
    /\ cache = <<>>

\* C28: saveToStorage always ends: the recursion through clearOldEntries ends after
\* finitely many eviction rounds and the recursion through clear ends even when
\* every write, the write of the empty mapping included, fails on quota; so the
\* stack is never used up.
C28_RecursionEnds == thrown # "RangeError" /\ Len(frames) < MaxStack

(***************************************************************************)
(* Claims about the session                                                *)
(***************************************************************************)
Checked == hist.op \in {"isAuthenticated", "getCurrentUser"}

\* C29: isAuthenticated() returns true only if a user is logged in and no more than
\* SESSION_TIMEOUT has passed since the login, whatever updateSessionActivity()
\* calls came in between; the first isAuthenticated() or getCurrentUser() after
\* that does not return true and leaves no user and no session slot.
C29_SessionValidity ==
    /\ (Checked /\ hist.result)
          => /\ user.loggedIn
             /\ hist.at - user.since <= SESSION_TIMEOUT
    /\ (Checked /\ hist.expired)
          => /\ ~hist.result
             /\ user = NoUser
             /\ session = NoUser

\* C29 witness: a login, activity after it, and a check after the timeout that
\* logged the user out.
C29_Witness ==
    /\ Checked
    /\ hist.expired
    /\ hist.user.loggedIn
    /\ hist.user.lastActivity > hist.user.since
    /\ hist.loggedOut
    /\ user = NoUser

\* C30: after logout(), from the button or from the expiry of the session, there
\* is no current user, no session slot and no entry in the cache, in memory or in
\* its blob; a login with wrong credentials changes none of them.
C30_LogoutLeavesNothing ==
    /\ hist.loggedOut
          => /\ user = NoUser
             /\ session = NoUser
             /\ cache = <<>>
             /\ loadFromStorage(stored) = <<>>
    /\ (hist.op = "login" /\ ~hist.result)
          => /\ user = hist.user
             /\ session = hist.session
             /\ cache = hist.cache
             /\ stored = hist.stored

====
